---------------------------- MODULE Spec2Model ----------------------------
(***************************************************************************)
(* Model of the result-aggregation engine of search-api (server source:    *)
(* src/unnamed/part_001): the TTL cache (cacheGet / cacheSet / cacheClear), *)
(* the retry executor (fetchWithRetry) and the category searches           *)
(* (webSearch and its siblings).                                            *)
(*                                                                         *)
(* Durations are scaled: one model time unit stands for TTL.short, and the *)
(* sizes (MAX_CACHE_SIZE, RESULTS_PER_PAGE) are scaled down so that the    *)
(* arithmetic of the code (floor(n * 0.1), (page - 1) * pageSize) keeps    *)
(* its shape.                                                              *)
(***************************************************************************)
EXTENDS Integers, Sequences, FiniteSets, TLC

VARIABLES
    \* ---- cache store (part_001:156-158) and the clock Date.now()
    CACHE,          \* the Map, as the sequence of its entries in insertion order
    cacheHits,
    cacheMisses,
    now,            \* Date.now()
    maxSize,        \* the configured MAX_CACHE_SIZE of this run
    lastOp,         \* the last cache call and what it returned
    getCalls,       \* cacheGet calls made since the last cacheClear
    faulty,         \* the try blocks of cacheGet and cacheSet may throw in this run
    \* ---- one call of fetchWithRetry (part_001:265-333)
    fpc,            \* where the call is: "loop", "fetch", "delay", "done"
    attempt,        \* the loop variable
    maxRetries,     \* the maxRetries argument
    lastError,      \* the local lastError
    timerArmed,     \* setTimeout(() => controller.abort(), REQUEST_TIMEOUT) is pending
    aborted,        \* controller.signal.aborted
    fcalls,         \* requests sent to the upstream
    fwait,          \* the delay being awaited, in units of 1000 ms
    history,        \* what each attempt's fetch settled with
    fret,           \* how the call ended
    \* ---- one category search at a time (webSearch, part_001:1116-1245)
    wpc,            \* "idle", "fanout" (await Promise.all), "backfill", "done"
    wreq,           \* the arguments of the call: category, query, page
    slots,          \* what each provider call of the fan-out settled with
    bslots,         \* what each supplementary call settled with
    allResults,     \* the local allResults when the supplementary calls start
    errors,         \* the local errors
    uniqueResults,  \* the local uniqueResults, sorted
    wcalls,         \* the provider calls this search has started
    wret,           \* how the search ended
    \* ---- the same search run a second time
    first,          \* the first run: its request, its outcomes and how it ended
    \* ---- the rate limiting middleware (part_001:451-496)
    requestCounts,  \* the Map requestCounts: ip -> timestamps of admitted requests
    devMode,        \* process.env.NODE_ENV === 'development'
    rres,           \* what the middleware did with the last request
    admitted,       \* every request passed to next(), per ip, never pruned
    \* ---- two searches in flight at once on one cache
    pair            \* per request: where it is, its key, what it wrote

cacheVars == <<CACHE, cacheHits, cacheMisses, now, maxSize, lastOp, getCalls, faulty>>

retryVars == <<fpc, attempt, maxRetries, lastError, timerArmed, aborted,
               fcalls, fwait, history, fret>>

webVars == <<wpc, wreq, slots, bslots, allResults, errors, uniqueResults,
             wcalls, wret>>

rateVars == <<requestCounts, devMode, rres, admitted>>

vars == <<CACHE, cacheHits, cacheMisses, now, maxSize, lastOp, getCalls, faulty,
          requestCounts, devMode, rres, admitted, pair,
          wpc, wreq, slots, bslots, allResults, errors, uniqueResults,
          wcalls, wret, first,
          fpc, attempt, maxRetries, lastError, timerArmed, aborted,
          fcalls, fwait, history, fret>>

(***************************************************************************)
(* Program constants (scaled).                                             *)
(***************************************************************************)
\* TTL.short, TTL.medium, TTL.long (part_001:55-59), in units of TTL.short.
TTL_short == 1
TTL_medium == 2
TTL_long == 3

\* MAX_CACHE_SIZE (part_001:77) is 10000; 10 is the smallest size for which
\* floor(size * 0.1) >= 1, as it is for 10000.
MAX_CACHE_SIZE == 10

(***************************************************************************)
(* Bounds of the model.                                                    *)
(***************************************************************************)
NKeys == 2          \* cache keys of the store specification
MaxGets == 2        \* cacheGet calls counted by cacheHits + cacheMisses
MaxAttempts == 3    \* largest maxRetries argument of a fetchWithRetry call
NCapKeys == 12      \* cache keys of the capacity specification
MaxPage == 4        \* largest page argument of a web search
MaxItems == 3       \* raw items the providers of one fan-out return in all
MaxExtra == 1       \* raw items the supplementary calls return in all
TwiceItems == 2     \* raw items of one fan-out when a search is run twice
\* the clock runs long enough to expire an entry stored with TTL.medium
MaxTime == TTL_medium + 1

Keys == 1..NKeys
CapKeys == 1..NCapKeys

\* Payloads: a result list (possibly empty) is what the searches store.
Null == [kind |-> "null", items |-> <<>>]
Payload(n) == [kind |-> "list", items |-> [i \in 1..n |-> i]]
Data == {Payload(0), Payload(1)}

\* The ttl arguments the program passes: TTL.short (weather) and the default
\* TTL.medium (every other search).
TtlArgs == {TTL_short, TTL_medium}

(***************************************************************************)
(* Cache store.                                                            *)
(***************************************************************************)
\* entry.ttl || TTL.medium
EffTtl(e) == IF e.ttl = 0 THEN TTL_medium ELSE e.ttl

\* age > ttl
ExpiredLate(e, t) == t - e.t > EffTtl(e) + 1
Expired(e, t) == t - e.t > EffTtl(e)

\* CACHE.get(key): the index of key's entry, 0 when absent
IndexOf(c, k) ==
    IF \E i \in 1..Len(c) : c[i].k = k
    THEN CHOOSE i \in 1..Len(c) : c[i].k = k
    ELSE 0

HasKey(c, k) == IndexOf(c, k) # 0

\* CACHE.delete on every entry whose index is in gone
Without(c, gone) ==
    LET keep == {i \in 1..Len(c) : i \notin gone}
        F[n \in 0..Len(c)] ==
            IF n = 0 THEN <<>>
            ELSE IF n \in keep THEN Append(F[n - 1], c[n]) ELSE F[n - 1]
    IN F[Len(c)]

\* position of entry i after entries.sort((a, b) => a[1].t - b[1].t), a stable sort
SortRank(c, i) ==
    Cardinality({j \in 1..Len(c) :
                    c[j].t < c[i].t \/ (c[j].t = c[i].t /\ j < i)})

\* Math.floor(entries.length * 0.1)
ToRemove(c) == Len(c) \div 10

\* the first loop of the cleanup: delete the toRemove oldest entries
EvictOldest(c) == Without(c, {i \in 1..Len(c) : SortRank(c, i) < ToRemove(c)})

\* the second loop of the cleanup: delete every logically expired entry
SweepExpired(c, t) == Without(c, {i \in 1..Len(c) : Expired(c[i], t)})

\* if (CACHE.size >= MAX_CACHE_SIZE)
CleanupNeededOff(c, m) == Len(c) > m
CleanupNeeded(c, m) == Len(c) >= m

Cleanup(c, t, m) ==
    IF CleanupNeeded(c, m) THEN SweepExpired(EvictOldest(c), t) ELSE c

\* CACHE.set(key, {d, t, ttl}): an existing key keeps its place in the Map
MapSetAppends(c, k, e) == Append(c, e)
MapSet(c, k, e) ==
    IF HasKey(c, k) THEN [c EXCEPT ![IndexOf(c, k)] = e] ELSE Append(c, e)

\* cacheSet(key, data, ttl): the store after the call
CacheAfterSetIfRoom(c, k, d, ttl, t, m) ==
    IF Len(Cleanup(c, t, m)) >= m THEN Cleanup(c, t, m)
    ELSE MapSet(Cleanup(c, t, m), k, [k |-> k, d |-> d, t |-> t, ttl |-> ttl])
CacheAfterSet(c, k, d, ttl, t, m) ==
    MapSet(Cleanup(c, t, m), k, [k |-> k, d |-> d, t |-> t, ttl |-> ttl])

\* cacheGet(key): an entry that is present and not expired is a hit
Fresh(c, k, t) == HasKey(c, k) /\ ~Expired(c[IndexOf(c, k)], t)

\* the branch cacheGet takes: lines 163-166, 171-175, 177-179
GetBranch(c, k, t) ==
    IF ~HasKey(c, k) THEN "absent"
    ELSE IF Fresh(c, k, t) THEN "fresh" ELSE "expired"

GetResult(c, k, t) == IF Fresh(c, k, t) THEN c[IndexOf(c, k)].d ELSE Null

CacheAfterGetKeeps(c, k, t) ==
    IF Fresh(c, k, t) THEN [c EXCEPT ![IndexOf(c, k)].t = t] ELSE c
\* a cacheGet whose hit returns the payload without touching the entry
CacheAfterGetNoRefresh(c, k, t) ==
    IF ~HasKey(c, k) \/ Fresh(c, k, t) THEN c
    ELSE Without(c, {IndexOf(c, k)})
CacheAfterGet(c, k, t) ==
    IF ~HasKey(c, k) THEN c
    ELSE IF Fresh(c, k, t) THEN [c EXCEPT ![IndexOf(c, k)].t = t]
    ELSE Without(c, {IndexOf(c, k)})

\* lines 161-179: the try block of cacheGet runs to its return
GetTry(k) ==
    /\ lastOp' = [op |-> "get", k |-> k, ret |-> GetResult(CACHE, k, now),
                  branch |-> GetBranch(CACHE, k, now)]
    /\ CACHE' = CacheAfterGet(CACHE, k, now)
    /\ IF Fresh(CACHE, k, now)
       THEN cacheHits' = cacheHits + 1 /\ UNCHANGED cacheMisses
       ELSE cacheMisses' = cacheMisses + 1 /\ UNCHANGED cacheHits
    /\ getCalls' = getCalls + 1
    /\ UNCHANGED <<now, maxSize, faulty>>

\* lines 180-184: the try block threw while it handled the entry of k, before
\* it changed anything; the catch block counts a miss and returns null
GetCatchHit(k) ==
    /\ lastOp' = [op |-> "get", k |-> k, ret |-> CACHE[IndexOf(CACHE, k)].d,
                  branch |-> "fault"]
    /\ cacheHits' = cacheHits + 1
    /\ getCalls' = getCalls + 1
    /\ UNCHANGED <<CACHE, cacheMisses, now, maxSize, faulty>>
GetCatch(k) ==
    /\ lastOp' = [op |-> "get", k |-> k, ret |-> Null, branch |-> "fault"]
    /\ cacheMisses' = cacheMisses + 1
    /\ getCalls' = getCalls + 1
    /\ UNCHANGED <<CACHE, cacheHits, now, maxSize, faulty>>

\* the effect of a call cacheGet(k) on the store; only the handling of an
\* entry that is present can throw
GetCall(k) ==
    \/ GetTry(k)
    \/ faulty /\ HasKey(CACHE, k) /\ GetCatch(k)

\* lines 188-209: the try block of cacheSet runs to its end
SetTry(k, d, ttl) ==
    /\ CACHE' = CacheAfterSet(CACHE, k, d, ttl, now, maxSize)
    /\ lastOp' = [op |-> "set", k |-> k, ret |-> d,
                  branch |-> IF CleanupNeeded(CACHE, maxSize) THEN "cleanup" ELSE "room"]
    /\ UNCHANGED <<cacheHits, cacheMisses, now, maxSize, getCalls, faulty>>

\* the stores a cleanup that throws may leave: the sort threw (nothing
\* deleted yet), or the sweep threw at some entry after the oldest were gone
PartialCleanups(c, t) ==
    {c} \cup {Without(EvictOldest(c),
                      {i \in 1..Len(EvictOldest(c)) :
                          i <= n /\ Expired(EvictOldest(c)[i], t)}) :
                 n \in 0..Len(EvictOldest(c))}

\* lines 210-212: the cleanup threw; the catch block logs and the call
\* returns without storing the entry
SetCatch(k, d) ==
    /\ CACHE' \in PartialCleanups(CACHE, now)
    /\ lastOp' = [op |-> "set", k |-> k, ret |-> d, branch |-> "fault"]
    /\ UNCHANGED <<cacheHits, cacheMisses, now, maxSize, getCalls, faulty>>

\* the effect of a call cacheSet(k, d, ttl) on the store; only the cleanup
\* handles stored entries and can throw
SetCall(k, d, ttl) ==
    \/ SetTry(k, d, ttl)
    \/ faulty /\ CleanupNeeded(CACHE, maxSize) /\ SetCatch(k, d)

cacheGet(k) ==
    /\ cacheHits + cacheMisses < MaxGets
    /\ GetCall(k)
    /\ UNCHANGED <<retryVars, webVars, first, rateVars, pair>>

cacheSet(k, d, ttl) ==
    /\ SetCall(k, d, ttl)
    /\ UNCHANGED <<retryVars, webVars, first, rateVars, pair>>

\* the effect of a call cacheClear() on the store
ClearCallKeepsCounters ==
    /\ CACHE' = <<>>
    /\ getCalls' = 0
    /\ lastOp' = [op |-> "clear", k |-> 0, ret |-> Null, branch |-> "clear"]
    /\ UNCHANGED <<cacheHits, cacheMisses, now, maxSize, faulty>>
ClearCall ==
    /\ CACHE' = <<>>
    /\ cacheHits' = 0
    /\ cacheMisses' = 0
    /\ getCalls' = 0
    /\ lastOp' = [op |-> "clear", k |-> 0, ret |-> Null, branch |-> "clear"]
    /\ UNCHANGED <<now, maxSize, faulty>>

cacheClear ==
    /\ ClearCall
    /\ UNCHANGED <<retryVars, webVars, first, rateVars, pair>>

\* getCacheStats(): a scan that counts the expired entries; hitRate is the
\* toFixed(2) percentage, in hundredths of a percent
StatsOf(c, t, h, m, size) ==
    [size |-> Len(c),
     hits |-> h,
     misses |-> m,
     hitRate |-> IF h + m > 0 THEN (20000 * h + (h + m)) \div (2 * (h + m)) ELSE 0,
     maxSize |-> size,
     expiredEntries |-> Cardinality({i \in 1..Len(c) : Expired(c[i], t)})]

getCacheStats ==
    /\ lastOp' = [op |-> "stats", k |-> 0, ret |-> Null, branch |-> "stats",
                  stats |-> StatsOf(CACHE, now, cacheHits, cacheMisses, maxSize)]
    /\ UNCHANGED <<CACHE, cacheHits, cacheMisses, now, maxSize, getCalls, faulty>>
    /\ UNCHANGED <<retryVars, webVars, first, rateVars, pair>>

\* the passage of time between two calls
TickSweeps ==
    /\ now < MaxTime
    /\ now' = now + 1
    /\ CACHE' = SweepExpired(CACHE, now + 1)
    /\ UNCHANGED <<cacheHits, cacheMisses, maxSize, lastOp, getCalls, faulty>>
    /\ UNCHANGED <<retryVars, webVars, first, rateVars, pair>>
Tick ==
    /\ now < MaxTime
    /\ now' = now + 1
    /\ UNCHANGED <<CACHE, cacheHits, cacheMisses, maxSize, lastOp, getCalls, faulty>>
    /\ UNCHANGED <<retryVars, webVars, first, rateVars, pair>>

NoOp == [op |-> "none", k |-> 0, ret |-> Null, branch |-> "none"]

CacheInit(sizes) ==
    /\ CACHE = <<>>
    /\ cacheHits = 0
    /\ cacheMisses = 0
    /\ now = 0
    /\ maxSize \in sizes
    /\ lastOp = NoOp
    /\ getCalls = 0
    /\ faulty = FALSE


(***************************************************************************)
(* webSearch(query, page, safeSearch): the category aggregator for web     *)
(* results.  A provider adapter is opaque: its call settles with a list of *)
(* raw items or with a thrown value.                                       *)
(***************************************************************************)
\* RESULTS_PER_PAGE (part_001:44) is 100, scaled to 2.
RESULTS_PER_PAGE == 2

\* searchMethods (lines 1129-1137), in registration order
searchMethods ==
    << [name |-> "DuckDuckGo", weight |-> 3],
       [name |-> "Brave", weight |-> 3],
       [name |-> "Startpage", weight |-> 2],
       [name |-> "Qwant", weight |-> 2],
       [name |-> "SearXNG", weight |-> 2],
       [name |-> "Mojeek", weight |-> 1],
       [name |-> "GoogleFallback", weight |-> 3] >>

Providers == 1..Len(searchMethods)

\* imageProviders (lines 1621-1630)
imageProviders ==
    << [name |-> "Unsplash", weight |-> 3],
       [name |-> "Pexels", weight |-> 3],
       [name |-> "Pixabay", weight |-> 2],
       [name |-> "Wikimedia", weight |-> 2],
       [name |-> "Flickr", weight |-> 2],
       [name |-> "Openverse", weight |-> 1],
       [name |-> "Bing", weight |-> 3],
       [name |-> "GoogleImages", weight |-> 3] >>

\* videoProviders (lines 2019-2027)
videoProviders ==
    << [name |-> "YouTube", weight |-> 3],
       [name |-> "YouTubeMusic", weight |-> 2],
       [name |-> "Vimeo", weight |-> 2],
       [name |-> "PeerTube", weight |-> 1],
       [name |-> "Dailymotion", weight |-> 2],
       [name |-> "Bilibili", weight |-> 1],
       [name |-> "Internet Archive", weight |-> 1] >>

\* newsProviders (lines 2142-2147)
newsProviders ==
    << [name |-> "NewsAPI", weight |-> 3],
       [name |-> "Bing News", weight |-> 2],
       [name |-> "Google News RSS", weight |-> 2],
       [name |-> "Reddit News", weight |-> 1] >>

\* weatherProviders (lines 2341-2344)
weatherProviders == << [name |-> "OpenWeatherMap"], [name |-> "Weather.gov"] >>

\* the provider registry of a category, by the prefix of its cache keys
Registry(cat) ==
    CASE cat = "web" -> searchMethods
      [] cat = "img" -> imageProviders
      [] cat = "vid" -> videoProviders
      [] cat = "news" -> newsProviders
      [] cat = "weather" -> weatherProviders
      [] OTHER -> <<>>

\* additionalSearches of imageSearch (lines 1676-1681) and of videoSearch
\* (lines 2073-2077)
imageAdditional == <<"Unsplash", "Pexels", "Bing", "GoogleImages">>
videoAdditional == <<"YouTubeRelated", "YouTubeTrending", "VimeoStaffPicks">>

AdditionalSearches(cat) ==
    CASE cat = "img" -> imageAdditional
      [] cat = "vid" -> videoAdditional
      [] OTHER -> <<>>

\* bestProviders (line 1185)
bestProviders == <<"DuckDuckGo", "Brave", "GoogleFallback">>

\* searchMethods.find(m => m.name === providerName)
FindMethod(name) ==
    IF \E i \in Providers : searchMethods[i].name = name
    THEN CHOOSE i \in Providers :
             /\ searchMethods[i].name = name
             /\ \A j \in Providers : searchMethods[j].name = name => i <= j
    ELSE 0

\* A raw item of an adapter: url 0 stands for a missing (falsy) url, score 0
\* for an absent (falsy) score; title tells the items of one list apart.
RawItem(u, sc, n) == [url |-> u, score |-> sc, title |-> n]

\* What a provider call settles with: a list of raw items, or a thrown value:
\* an Error with a message, or `undefined`
\* (what fetchWithRetry throws after maxRetries 5xx answers, line 332).
OkOut(items) == [ok |-> TRUE, results |-> items, thrown |-> "none"]
FailOut(t) == [ok |-> FALSE, results |-> <<>>, thrown |-> t]
ThrownValues == {"Error", "undefined"}
NotSettled == [ok |-> FALSE, results |-> <<>>, thrown |-> "pending"]

\* error.message of a thrown Error
MessageOf(t) == IF t = "Error" THEN "failed" ELSE ""

\* the .then / .catch handlers of a provider promise (lines 1141-1151): the
\* value the promise fulfils with; reading error.message of `undefined`
\* throws a TypeError, which rejects the promise
HandlerRejects(o) == ~o.ok /\ o.thrown = "undefined"

ProviderResult(reg, i, o) ==
    [name |-> reg[i].name,
     results |-> o.results,
     error |-> IF o.ok THEN "" ELSE MessageOf(o.thrown),
     weight |-> reg[i].weight]

\* (provider.weight || 1) * (r.score || 1)
OrOne(x) == IF x = 0 THEN 1 ELSE x
WeightScoreOf(w, r) == OrOne(w) * OrOne(r.score)

\* lines 1169-1174; the source string is the provider's name, written here
\* with page 0, and `${name} (page ${k})` for a supplementary item
Enrich(pr, r) ==
    [url |-> r.url, score |-> r.score, title |-> r.title,
     source |-> <<pr.name, 0>>,
     weightScore |-> WeightScoreOf(pr.weight, r)]

EnrichAll(pr) == [n \in 1..Len(pr.results) |-> Enrich(pr, pr.results[n])]

\* the loop over providerResults (lines 1159-1180): allResults
RECURSIVE AllResultsOf(_, _)
AllResultsOf(prs, n) ==
    IF n = 0 THEN <<>>
    ELSE IF prs[n].error # "" THEN AllResultsOf(prs, n - 1)
    ELSE AllResultsOf(prs, n - 1) \o EnrichAll(prs[n])

\* the loop over providerResults (lines 1159-1164): errors
RECURSIVE ErrorsOf(_, _)
ErrorsOf(prs, n) ==
    IF n = 0 THEN <<>>
    ELSE IF prs[n].error # ""
         THEN Append(ErrorsOf(prs, n - 1),
                     [provider |-> prs[n].name, error |-> prs[n].error])
         ELSE ErrorsOf(prs, n - 1)

\* the supplementary calls pushed by the loops of lines 1188-1201, in order:
\* for each best provider, additionalPage 2 and 3
AdditionalCalls ==
    [j \in 1..(2 * Len(bestProviders)) |->
        [name |-> bestProviders[(j + 1) \div 2],
         additionalPage |-> 2 + ((j + 1) % 2)]]

\* if (allResults.length < RESULTS_PER_PAGE)
NeedsMore(all) == Len(all) < RESULTS_PER_PAGE

\* lines 1208-1212: the items of a supplementary call, with no weightScore
Additional(call, r) ==
    [url |-> r.url, score |-> r.score, title |-> r.title,
     source |-> <<call.name, call.additionalPage>>]

RECURSIVE AdditionalOf(_, _)
AdditionalOf(outs, n) ==
    IF n = 0 THEN <<>>
    ELSE AdditionalOf(outs, n - 1)
            \o [m \in 1..Len(outs[n].results) |->
                    Additional(AdditionalCalls[n], outs[n].results[m])]

\* (result.weightScore || 0)
WS(r) == IF "weightScore" \in DOMAIN r THEN r.weightScore ELSE 0

\* the index in the Map's insertion order of the value kept for url u, or 0
SeenAt(seen, u) ==
    IF \E i \in 1..Len(seen) : seen[i].url = u
    THEN CHOOSE i \in 1..Len(seen) : seen[i].url = u
    ELSE 0

\* one turn of the loop of lines 1221-1228; seenUrls.set on a url already in
\* the Map replaces the value and keeps the url's place
KeepBetterOff(seen, r) == Append(seen, r)
KeepBetter(seen, r) ==
    IF r.url = 0 THEN seen
    ELSE IF SeenAt(seen, r.url) = 0 THEN Append(seen, r)
    ELSE IF WS(r) > WS(seen[SeenAt(seen, r.url)])
         THEN [seen EXCEPT ![SeenAt(seen, r.url)] = r]
         ELSE seen

\* Array.from(seenUrls.values()) after the loop
RECURSIVE Dedup(_, _)
Dedup(all, n) == IF n = 0 THEN <<>> ELSE KeepBetter(Dedup(all, n - 1), all[n])

\* uniqueResults.sort((a, b) => (b.weightScore || 0) - (a.weightScore || 0)),
\* a stable sort: x goes after every element that does not score lower
InsertByScore(sorted, x) ==
    LET k == Cardinality({i \in 1..Len(sorted) : WS(sorted[i]) >= WS(x)})
    IN SubSeq(sorted, 1, k) \o <<x>> \o SubSeq(sorted, k + 1, Len(sorted))

RECURSIVE SortByScore(_, _)
SortByScore(xs, n) ==
    IF n = 0 THEN <<>> ELSE InsertByScore(SortByScore(xs, n - 1), xs[n])

UniqueResults(all) == SortByScore(Dedup(all, Len(all)), Len(Dedup(all, Len(all))))

\* uniqueResults.slice(start, end) with start = (page - 1) * RESULTS_PER_PAGE
PageStartOff(page) == page * RESULTS_PER_PAGE
PageStart(page) == (page - 1) * RESULTS_PER_PAGE

Slice(xs, start, end) ==
    LET hi == IF end < Len(xs) THEN end ELSE Len(xs)
    IN IF start >= hi THEN <<>> ELSE [i \in 1..(hi - start) |-> xs[start + i]]

PagedResults(unique, page) ==
    Slice(unique, PageStart(page), PageStart(page) + RESULTS_PER_PAGE)

\* the payload a search returns and stores: the array of its results
ListPayload(items) == [kind |-> "list", items |-> items]

\* the arguments of a search; page is 0 and safe is "none" for the searches
\* that take none
Request(cat, q, page, safe) ==
    [cat |-> cat, query |-> q, page |-> page, safe |-> safe]
NoRequest == Request("none", 0, 0, "none")

\* the cache key: `web:${query}:${page}:${safeSearchLevel}`,
\* `img:${query}:${safeSearchLevel}`, ..., `weather:${query}`
CacheKey(req) == <<req.cat, req.query, req.page, req.safe>>

\* `if (cached)`: every payload a search stores is an array or an object,
\* which is truthy even when it is empty; null is the miss
TruthyOff(v) == v # Null /\ v.items # <<>>
Truthy(v) == v # Null

\* how a search ends: with a returned value or with a raised error
NoReturn == [kind |-> "pending", value |-> Null, error |-> "none"]
Return(v) == [kind |-> "return", value |-> v, error |-> "none"]
Raise(e) == [kind |-> "throw", value |-> Null, error |-> e]

Unsettled(n) == [i \in 1..n |-> NotSettled]

\* no first run is on record
NoFirst == [req |-> NoRequest, slots |-> <<>>, bslots |-> <<>>, ret |-> NoReturn]

\* no search is running
WebIdle ==
    /\ wpc = "idle"
    /\ wreq = NoRequest
    /\ slots = <<>>
    /\ bslots = <<>>
    /\ allResults = <<>>
    /\ errors = <<>>
    /\ uniqueResults = <<>>
    /\ wcalls = <<>>
    /\ wret = NoReturn
    /\ first = NoFirst

\* no request has reached the rate limiter
NoResponse == [n |-> 0, ip |-> 0, status |-> "none", remaining |-> 0]

RateIdle ==
    /\ requestCounts = <<>>
    /\ devMode = FALSE
    /\ rres = NoResponse
    /\ admitted = <<>>

\* no two searches are in flight together
PairIdle == pair = <<>>

\* searchMethods.map(method => method.func()...): every adapter is called
\* with the query and the page of the request
FanOutCalls(req) ==
    [i \in 1..Len(Registry(req.cat)) |->
        [name |-> Registry(req.cat)[i].name, page |-> req.page]]

\* the calls a search starts before its first await
FirstCalls(req) ==
    IF req.cat = "weather"
    THEN <<[name |-> weatherProviders[1].name, page |-> req.page]>>
    ELSE FanOutCalls(req)

\* provider.func(query, page + additionalPage - 1, safeSearchLevel): func is
\* the closure () => searchViaX(query, page, ...) of the registry, which takes
\* no parameter, so the adapter is called with the page of the request
MoreCalls(req) ==
    [j \in 1..Len(AdditionalCalls) |->
        [name |-> AdditionalCalls[j].name, page |-> req.page]]

\* a category search up to its first await: the cache check and, on a miss,
\* the start of the provider calls
Begin(req) ==
    /\ wpc \in {"idle", "done"}
    /\ GetCall(CacheKey(req))
    /\ wreq' = req
    /\ slots' = Unsettled(Len(Registry(req.cat)))
    /\ bslots' = <<>>
    /\ allResults' = <<>>
    /\ errors' = <<>>
    /\ uniqueResults' = <<>>
    /\ IF Truthy(lastOp'.ret)
       THEN /\ wpc' = "done"
            /\ wcalls' = <<>>
            /\ wret' = Return(lastOp'.ret)
       ELSE /\ wpc' = IF req.cat = "weather" THEN "trying" ELSE "fanout"
            /\ wcalls' = FirstCalls(req)
            /\ wret' = NoReturn
    /\ UNCHANGED <<retryVars, first, rateVars, pair>>

webSearch(q, page) == Begin(Request("web", q, page, "moderate"))

imageSearch(q) == Begin(Request("img", q, 0, "moderate"))

videoSearch(q) == Begin(Request("vid", q, 0, "moderate"))

newsSearch(q, safe) == Begin(Request("news", q, 0, safe))

weatherSearch(q) == Begin(Request("weather", q, 0, "none"))

\* cacheSet(key, data, ttl = TTL.medium): the ttl of a call that passes none
DefaultTtlShort == TTL_short
DefaultTtl == TTL_medium

\* lines 1218-1245: deduplicate, sort, paginate, store and return
Finish(all) ==
    /\ uniqueResults' = UniqueResults(all)
    /\ SetCall(CacheKey(wreq),
               ListPayload(PagedResults(UniqueResults(all), wreq.page)),
               DefaultTtl)
    /\ wret' = Return(ListPayload(PagedResults(UniqueResults(all), wreq.page)))
    /\ wpc' = "done"

\* webSearch from the first await on (lines 1154-1245), once every provider
\* promise is fulfilled with prs
AfterFanOut(prs) ==
    /\ errors' = ErrorsOf(prs, Len(prs))
    /\ allResults' = AllResultsOf(prs, Len(prs))
    /\ IF NeedsMore(AllResultsOf(prs, Len(prs)))
       THEN /\ wpc' = "backfill"
            /\ bslots' = Unsettled(Len(AdditionalCalls))
            /\ wcalls' = wcalls \o MoreCalls(wreq)
            /\ UNCHANGED <<uniqueResults, wret, cacheVars>>
       ELSE /\ Finish(AllResultsOf(prs, Len(prs)))
            /\ UNCHANGED <<bslots, wcalls>>

AllSettledAny(ss) == \E i \in 1..Len(ss) : ss[i] # NotSettled
AllSettled(ss) == \A i \in 1..Len(ss) : ss[i] # NotSettled

\* raw items that the settled calls have returned
RECURSIVE Used(_, _)
Used(ss, n) == IF n = 0 THEN 0 ELSE Used(ss, n - 1) + Len(ss[n].results)

NextPending(ss) ==
    CHOOSE i \in 1..Len(ss) :
        /\ ss[i] = NotSettled
        /\ \A j \in 1..(i - 1) : ss[j] # NotSettled

\* (a fan-out that would merge each list as its call completes)
SettleInCompletionOrder(i, o) ==
    /\ wpc = "fanout"
    /\ wreq.cat = "web"
    /\ slots[i] = NotSettled
    /\ slots' = [slots EXCEPT ![i] = o]
    /\ LET all == allResults \o EnrichAll(ProviderResult(searchMethods, i, o))
       IN IF HandlerRejects(o)
          THEN /\ wpc' = "done"
               /\ wret' = Raise("TypeError")
               /\ UNCHANGED <<bslots, allResults, errors, uniqueResults, wcalls, cacheVars>>
          ELSE IF \A p \in 1..Len(slots) : p = i \/ slots[p] # NotSettled
          THEN /\ errors' = <<>>
               /\ allResults' = all
               /\ IF NeedsMore(all)
                  THEN /\ wpc' = "backfill"
                       /\ bslots' = Unsettled(Len(AdditionalCalls))
                       /\ wcalls' = wcalls \o MoreCalls(wreq)
                       /\ UNCHANGED <<uniqueResults, wret, cacheVars>>
                  ELSE /\ Finish(all)
                       /\ UNCHANGED <<bslots, wcalls>>
          ELSE /\ allResults' = all
               /\ UNCHANGED <<wpc, wret, bslots, errors, uniqueResults, wcalls, cacheVars>>
    /\ UNCHANGED <<wreq, retryVars, first, rateVars, pair>>

\* the call of provider i settles with o.  A rejected handler rejects
\* Promise.all at once and the search raises; the last fulfilment resumes the
\* search.
Settle(i, o) ==
    /\ wpc = "fanout"
    /\ wreq.cat = "web"
    /\ slots[i] = NotSettled
    /\ slots' = [slots EXCEPT ![i] = o]
    /\ IF HandlerRejects(o)
       THEN /\ wpc' = "done"
            /\ wret' = Raise("TypeError")
            /\ UNCHANGED <<bslots, allResults, errors, uniqueResults, wcalls, cacheVars>>
       ELSE IF AllSettled([slots EXCEPT ![i] = o])
       THEN AfterFanOut([p \in Providers |->
                            ProviderResult(searchMethods, p,
                                           [slots EXCEPT ![i] = o][p])])
       ELSE UNCHANGED <<wpc, wret, bslots, allResults, errors, uniqueResults,
                        wcalls, cacheVars>>
    /\ UNCHANGED <<wreq, retryVars, first, rateVars, pair>>

\* supplementary call j settles with o; its .catch turns any rejection into
\* an empty list (line 1196); the last one resumes the search (line 1203)
SettleMore(j, o) ==
    /\ wpc = "backfill"
    /\ bslots[j] = NotSettled
    /\ bslots' = [bslots EXCEPT ![j] = o]
    /\ IF AllSettled([bslots EXCEPT ![j] = o])
       THEN Finish(allResults \o AdditionalOf([bslots EXCEPT ![j] = o], Len(bslots)))
       ELSE UNCHANGED <<wpc, wret, uniqueResults, cacheVars>>
    /\ UNCHANGED <<wreq, slots, allResults, errors, wcalls, retryVars, first, rateVars, pair>>

(***************************************************************************)
(* imageSearch, videoSearch, newsSearch: the same fan-out, a random        *)
(* multiplier on the provider weight, additional searches one after the    *)
(* other, first-occurrence deduplication.  weatherSearch: one provider     *)
(* after the other until one has data.                                     *)
(***************************************************************************)
\* the literals of the code, scaled like RESULTS_PER_PAGE (100 to 2)
ADDITIONAL_BELOW == 2   \* if (allImages.length < 100)
ADDITIONAL_STOP == 3    \* if (allImages.length >= 150) break
MEDIA_LIMIT == 3        \* uniqueImages.slice(0, 150)
NEWS_LIMIT == 1         \* uniqueArticles.slice(0, 50)

\* Math.random() * 0.5 + 0.5 lies in [0.5, 1); scores are counted in
\* quarters, the draws are 0.5 and 0.75, and the score 1 is ScoreUnit
Jitters == {2, 3}
ScoreUnit == 4

\* { ...img, provider: provider.name, weight: provider.weight,
\*   score: provider.weight * (Math.random() * 0.5 + 0.5) }
Weighted(pr, r, j) ==
    [provider |-> <<pr.name, 0>>, weight |-> pr.weight, score |-> pr.weight * j] @@ r

\* the loop over providerResults; js[n] is the draw for the n-th item
RECURSIVE WeightedOf(_, _, _)
WeightedOf(prs, n, js) ==
    IF n = 0 THEN <<>>
    ELSE IF prs[n].error # "" THEN WeightedOf(prs, n - 1, js)
    ELSE WeightedOf(prs, n - 1, js)
            \o [m \in 1..Len(prs[n].results) |->
                    Weighted(prs[n], prs[n].results[m],
                             js[Len(WeightedOf(prs, n - 1, js)) + m])]

\* { ...img, provider: `${search.name} (additional)` } in imageSearch,
\* { ...video, provider: search.name } in videoSearch
MoreItem(cat, name, r) ==
    [provider |-> <<name, IF cat = "img" THEN 1 ELSE 0>>] @@ r

\* (a.weight || 1) * (a.score || 1), in quarters
SortKey(a) ==
    (IF "weight" \in DOMAIN a THEN OrOne(a.weight) ELSE 1)
        * (IF "score" \in DOMAIN a /\ a.score # 0 THEN a.score ELSE ScoreUnit)

\* a stable sort by descending SortKey
InsertByKey(sorted, x) ==
    LET k == Cardinality({i \in 1..Len(sorted) : SortKey(sorted[i]) >= SortKey(x)})
    IN SubSeq(sorted, 1, k) \o <<x>> \o SubSeq(sorted, k + 1, Len(sorted))

RECURSIVE SortByKey(_, _)
SortByKey(xs, n) ==
    IF n = 0 THEN <<>> ELSE InsertByKey(SortByKey(xs, n - 1), xs[n])

\* if (!image.image || seenUrls.has(image.image)) continue
UniqueImages(all) ==
    Without(all, {i \in 1..Len(all) :
                    \/ all[i].image = 0
                    \/ \E j \in 1..(i - 1) : all[j].image = all[i].image})

\* if (!article.url || seenUrls.has(article.url)) continue
UniqueArticles(all) ==
    Without(all, {i \in 1..Len(all) :
                    \/ all[i].url = 0
                    \/ \E j \in 1..(i - 1) : all[j].url = all[i].url})

\* const id = video.videoId || video.url
VideoId(v) == IF v.videoId # 0 THEN v.videoId ELSE v.url

\* if (!id) continue; if (seenIds.has(id) || seenUrls.has(video.url)) continue
RECURSIVE UniqueVideos(_, _)
UniqueVideos(all, n) ==
    IF n = 0 THEN <<>>
    ELSE LET kept == UniqueVideos(all, n - 1)
         IN IF VideoId(all[n]) = 0 THEN kept
            ELSE IF \E k \in 1..Len(kept) :
                        \/ VideoId(kept[k]) = VideoId(all[n])
                        \/ kept[k].url = all[n].url
                 THEN kept
                 ELSE Append(kept, all[n])

UniqueOf(cat, all) ==
    CASE cat = "img" -> UniqueImages(all)
      [] cat = "vid" -> UniqueVideos(all, Len(all))
      [] OTHER -> UniqueArticles(all)

Limit(cat) == IF cat = "news" THEN NEWS_LIMIT ELSE MEDIA_LIMIT

\* the url of an article on one of the blockedDomains
BlockedUrl == 3

\* extractDomain(undefined) returns undefined, and domain.includes throws
StrictRaises(all) == \E n \in 1..Len(all) : all[n].url = 0

\* allArticles.filter(article => !blockedDomains.some(...))
StrictFilter(all) == Without(all, {n \in 1..Len(all) : all[n].url = BlockedUrl})

\* deduplicate, sort, cut, store and return
FinishWeighted(all) ==
    /\ uniqueResults' = SortByKey(UniqueOf(wreq.cat, all), Len(UniqueOf(wreq.cat, all)))
    /\ SetCall(CacheKey(wreq),
               ListPayload(Slice(SortByKey(UniqueOf(wreq.cat, all),
                                           Len(UniqueOf(wreq.cat, all))),
                                 0, Limit(wreq.cat))),
               DefaultTtl)
    /\ wret' = Return(ListPayload(Slice(SortByKey(UniqueOf(wreq.cat, all),
                                                  Len(UniqueOf(wreq.cat, all))),
                                        0, Limit(wreq.cat))))
    /\ wpc' = "done"

AdditionalCall(cat, j) == [name |-> AdditionalSearches(cat)[j], page |-> 0]

\* the search from `await Promise.all` on, with the weighted items all
AfterWeighted(all) ==
    /\ allResults' = all
    /\ IF wreq.cat = "news"
       THEN IF wreq.safe = "strict" /\ StrictRaises(all)
            THEN /\ wpc' = "done"
                 /\ wret' = Raise("TypeError")
                 /\ UNCHANGED <<bslots, uniqueResults, wcalls, cacheVars>>
            ELSE /\ FinishWeighted(IF wreq.safe = "strict"
                                   THEN StrictFilter(all) ELSE all)
                 /\ UNCHANGED <<bslots, wcalls>>
       ELSE IF Len(all) < ADDITIONAL_BELOW
            THEN /\ wpc' = "more"
                 /\ wcalls' = Append(wcalls, AdditionalCall(wreq.cat, 1))
                 /\ UNCHANGED <<bslots, uniqueResults, wret, cacheVars>>
            ELSE /\ FinishWeighted(all)
                 /\ UNCHANGED <<bslots, wcalls>>

\* the call of provider i of an image, video or news search settles with o
SettleWeighted(i, o) ==
    /\ wpc = "fanout"
    /\ wreq.cat \in {"img", "vid", "news"}
    /\ slots[i] = NotSettled
    /\ slots' = [slots EXCEPT ![i] = o]
    /\ IF HandlerRejects(o)
       THEN /\ wpc' = "done"
            /\ wret' = Raise("TypeError")
            /\ UNCHANGED <<bslots, allResults, uniqueResults, wcalls, cacheVars>>
       ELSE IF AllSettled([slots EXCEPT ![i] = o])
       THEN \E js \in [1..Used([slots EXCEPT ![i] = o], Len(slots)) -> Jitters] :
                AfterWeighted(
                    WeightedOf([p \in 1..Len(slots) |->
                                   ProviderResult(Registry(wreq.cat), p,
                                                  [slots EXCEPT ![i] = o][p])],
                               Len(slots), js))
       ELSE UNCHANGED <<wpc, wret, bslots, allResults, uniqueResults, wcalls,
                        cacheVars>>
    /\ UNCHANGED <<wreq, errors, retryVars, first, rateVars, pair>>

\* the additional search in progress settles with o: its items are appended
\* and the loop goes on or ends; the catch block reads error.message
SettleAdditional(o) ==
    /\ wpc = "more"
    /\ bslots' = Append(bslots, o)
    /\ LET j == Len(bslots) + 1
           all == allResults
                    \o [m \in 1..Len(o.results) |->
                            MoreItem(wreq.cat, AdditionalSearches(wreq.cat)[j],
                                     o.results[m])]
       IN IF HandlerRejects(o)
          THEN /\ wpc' = "done"
               /\ wret' = Raise("TypeError")
               /\ UNCHANGED <<allResults, uniqueResults, wcalls, cacheVars>>
          ELSE IF j < Len(AdditionalSearches(wreq.cat)) /\ Len(all) < ADDITIONAL_STOP
          THEN /\ allResults' = all
               /\ wcalls' = Append(wcalls, AdditionalCall(wreq.cat, j + 1))
               /\ UNCHANGED <<wpc, wret, uniqueResults, cacheVars>>
          ELSE /\ allResults' = all
               /\ FinishWeighted(all)
               /\ UNCHANGED wcalls
    /\ UNCHANGED <<wreq, slots, errors, retryVars, first, rateVars, pair>>

\* what weatherSearch stores and returns: the data of a provider, stamped
\* with its name, or the error object
WeatherData(name, data) == [kind |-> "weather", items |-> data, provider |-> name]
errorData ==
    [kind |-> "weatherError", items |-> <<>>,
     providers_tried |-> [i \in 1..Len(weatherProviders) |-> weatherProviders[i].name]]

\* the weather provider being tried settles with o (lines 2346-2361)
WeatherSettles(o) ==
    /\ wpc = "trying"
    /\ slots' = [slots EXCEPT ![NextPending(slots)] = o]
    /\ LET i == NextPending(slots)
       IN IF o.ok /\ o.results # <<>>
          THEN /\ SetCall(CacheKey(wreq),
                          WeatherData(weatherProviders[i].name, o.results), TTL_short)
               /\ wret' = Return(WeatherData(weatherProviders[i].name, o.results))
               /\ wpc' = "done"
               /\ UNCHANGED wcalls
          ELSE IF HandlerRejects(o)
          THEN /\ wpc' = "done"
               /\ wret' = Raise("TypeError")
               /\ UNCHANGED <<wcalls, cacheVars>>
          ELSE IF i < Len(weatherProviders)
          THEN /\ wcalls' = Append(wcalls, [name |-> weatherProviders[i + 1].name,
                                            page |-> 0])
               /\ UNCHANGED <<wpc, wret, cacheVars>>
          ELSE /\ SetCall(CacheKey(wreq), errorData, TTL_short)
               /\ wret' = Return(errorData)
               /\ wpc' = "done"
               /\ UNCHANGED wcalls
    /\ UNCHANGED <<wreq, bslots, allResults, errors, uniqueResults, retryVars, first, rateVars, pair>>

(***************************************************************************)
(* Retry executor: fetchWithRetry(url, options, maxRetries).               *)
(***************************************************************************)
\* What one fetch of the upstream settles with: a 2xx response whose body
\* parses, a 2xx response whose body does not parse (response.json() throws),
\* 429 without and with a retry-after header, a 5xx status, another status,
\* a transport error, and the rejection of an aborted request.
Outcomes == {"ok", "badbody", "s429", "s429ra", "s500", "s404", "neterr"}

\* parseInt(retryAfter) of the retry-after header the upstream sends
RetryAfterSecs == 7

\* error values: `undefined` and Error objects
Undefined == [type |-> "undefined", wrapped |-> FALSE, cause |-> "none"]
ErrorOf(o) == [type |-> "Error", wrapped |-> FALSE, cause |-> o]
\* new Error(`Failed after ${maxRetries} attempts: ${error.message}`)
FailedAfter(e) == [type |-> "Error", wrapped |-> TRUE, cause |-> e.cause]

Pending == [kind |-> "pending", err |-> Undefined]
Returned == [kind |-> "return", err |-> Undefined]
Thrown(e) == [kind |-> "throw", err |-> e]

RetryInitWith(ns) ==
    /\ fpc = "loop"
    /\ attempt = 0
    /\ maxRetries \in ns
    /\ lastError = Undefined
    /\ timerArmed = TRUE
    /\ aborted = FALSE
    /\ fcalls = 0
    /\ fwait = 0
    /\ history = <<>>
    /\ fret = Pending

\* a call that is not running (the state of the retry variables in the
\* specifications that are about something else)
RetryIdle ==
    /\ fpc = "done"
    /\ attempt = 0
    /\ maxRetries = 0
    /\ lastError = Undefined
    /\ timerArmed = FALSE
    /\ aborted = FALSE
    /\ fcalls = 0
    /\ fwait = 0
    /\ history = <<>>
    /\ fret = Pending

\* for (let attempt = 0; attempt < maxRetries; attempt++) { ... fetch(url, ...)
\* and, when the loop is left, throw lastError
LoopExit(e) == Thrown(e)

StartAttempt ==
    /\ fpc = "loop"
    /\ IF attempt < maxRetries
       THEN /\ fpc' = "fetch"
            \* a request whose signal is already aborted is rejected unsent
            /\ fcalls' = IF aborted THEN fcalls ELSE fcalls + 1
            /\ UNCHANGED fret
       ELSE /\ fpc' = "done"
            /\ fret' = LoopExit(lastError)
            /\ UNCHANGED fcalls
    /\ UNCHANGED <<attempt, maxRetries, lastError, timerArmed, aborted, fwait, history>>
    /\ UNCHANGED <<cacheVars, webVars, first, rateVars, pair>>

\* the catch block (lines 314-329) for the error e of attempt `attempt`
CatchBlock(e) ==
    /\ timerArmed' = FALSE
    /\ lastError' = e
    /\ IF attempt = maxRetries - 1
       THEN /\ fpc' = "done"
            /\ fret' = Thrown(FailedAfter(e))
            /\ UNCHANGED fwait
       ELSE /\ fpc' = "delay"
            /\ fwait' = 2 ^ attempt
            /\ UNCHANGED fret

\* 1000 * (attempt + 1), or the retry-after header (lines 304-305)
StatusWait(o) == IF o = "s429ra" THEN RetryAfterSecs ELSE attempt + 1

\* the fetch of the current attempt settles with outcome o (lines 292-313)
FetchSettles(o) ==
    /\ fpc = "fetch"
    /\ history' = Append(history, o)
    /\ CASE o = "ok" ->
              /\ timerArmed' = FALSE
              /\ fpc' = "done"
              /\ fret' = Returned
              /\ UNCHANGED <<lastError, fwait>>
         [] o \in {"s429", "s429ra", "s500"} ->
              /\ timerArmed' = FALSE
              /\ fpc' = "delay"
              /\ fwait' = StatusWait(o)
              /\ UNCHANGED <<lastError, fret>>
         [] OTHER -> CatchBlock(ErrorOf(o))
    /\ UNCHANGED <<attempt, maxRetries, aborted, fcalls>>
    /\ UNCHANGED <<cacheVars, webVars, first, rateVars, pair>>

FetchResponds == \E o \in Outcomes : ~aborted /\ FetchSettles(o)

\* the request of an aborted signal rejects with an AbortError
FetchAborts == aborted /\ FetchSettles("abort")

\* the REQUEST_TIMEOUT timer fires while it is armed (line 269)
TimerFires ==
    /\ timerArmed
    /\ fpc = "fetch"
    /\ aborted' = TRUE
    /\ timerArmed' = FALSE
    /\ UNCHANGED <<fpc, attempt, maxRetries, lastError, fcalls, fwait, history, fret>>
    /\ UNCHANGED <<cacheVars, webVars, first, rateVars, pair>>

\* a loop whose wait does not advance the attempt counter
DelayElapsesSameAttempt ==
    /\ fpc = "delay"
    /\ fpc' = "loop"
    /\ fwait' = 0
    /\ UNCHANGED <<attempt, maxRetries, lastError, timerArmed, aborted, fcalls, history, fret>>
    /\ UNCHANGED <<cacheVars, webVars, first, rateVars, pair>>

\* await delay(waitTime) is over; the loop goes on with attempt + 1
DelayElapses ==
    /\ fpc = "delay"
    /\ fpc' = "loop"
    /\ attempt' = attempt + 1
    /\ fwait' = 0
    /\ UNCHANGED <<maxRetries, lastError, timerArmed, aborted, fcalls, history, fret>>
    /\ UNCHANGED <<cacheVars, webVars, first, rateVars, pair>>

CacheIdle == CacheInit({MAX_CACHE_SIZE})

RetryInit == CacheIdle /\ WebIdle /\ RateIdle /\ PairIdle /\ RetryInitWith(1..MaxAttempts)

RetryNext == StartAttempt \/ FetchResponds \/ FetchAborts \/ TimerFires \/ DelayElapses

SpecRetry == RetryInit /\ [][RetryNext]_vars

\* every attempt of the call so far was answered with a 5xx status
AllAttempts5xx == \A i \in 1..Len(history) : history[i] = "s500"

\* C6: when every attempt is answered 5xx, the upstream is invoked exactly
\* maxRetries times and the call throws an Error that carries the last
\* HTTP 5xx failure (never undefined).
C6_RetryBudgetKeepsLastError ==
    (fpc = "done" /\ Len(history) = maxRetries /\ AllAttempts5xx) =>
        /\ fcalls = maxRetries
        /\ fret.kind = "throw"
        /\ fret.err.type = "Error"
        /\ fret.err.cause = "s500"

\* the answers the retry loop is not meant to repeat: a 4xx status other
\* than 429, and a 2xx body that does not parse
NonRetryable == {"s404", "badbody"}

\* C11: a non-retryable failure (a 4xx other than 429, an unparseable
\* response) ends the call right after that attempt: the call has thrown,
\* no delay is scheduled and no later attempt is on record.
C11_NonRetryableIsTerminal ==
    \A n \in 1..Len(history) :
        history[n] \in NonRetryable =>
            /\ n = Len(history)
            /\ fpc = "done"
            /\ fret.kind = "throw"
            /\ fwait = 0

\* C23: the wait scheduled after a failed attempt, in units of 1000 ms, with
\* attemptIndex the loop index of that attempt: the retry-after delay after a
\* 429 that carries one, attemptIndex after any other 429, 2^attemptIndex
\* after every other failure; and no wait after the final attempt.
C23_BackoffSchedule ==
    [][ Len(history') = Len(history) + 1 =>
            /\ attempt = maxRetries - 1 => fpc' # "delay"
            /\ fpc' = "delay" =>
                   fwait' = CASE history'[Len(history')] = "s429ra" -> RetryAfterSecs
                              [] history'[Len(history')] = "s429" -> attempt
                              [] OTHER -> 2 ^ attempt ]_vars

\* C12: the abort timer armed at the start stays armed until the call ends
\* (unless it has fired), and once it has fired no further attempt is
\* started.
C12_OneTimerBoundsTheCall ==
    [][ /\ (fpc' # "done" /\ ~aborted') => timerArmed'
        /\ (aborted /\ fpc = "loop") => fpc' # "fetch" ]_vars

(***************************************************************************)
(* Spec: the cache store under any sequence of calls and clock advances.   *)
(***************************************************************************)
Init == CacheInit({MAX_CACHE_SIZE}) /\ RetryIdle /\ WebIdle /\ RateIdle /\ PairIdle

DoGet == \E k \in Keys : cacheGet(k)
DoSet == \E k \in Keys, d \in Data, ttl \in TtlArgs : cacheSet(k, d, ttl)
DoClear == cacheClear

Next == DoGet \/ DoSet \/ DoClear \/ Tick

Spec == Init /\ [][Next]_vars

\* C29: a cacheGet that finds its entry no older than the entry's ttl is a
\* hit; the hit sets the entry's timestamp to now and leaves its payload, its
\* ttl, its place, every other entry and the size of the store unchanged, so
\* the entry is still stored and its age restarts at every such read.
C29_HitRefreshesOnlyRecency ==
    [][ (cacheHits' + cacheMisses' = cacheHits + cacheMisses + 1
         /\ HasKey(CACHE, lastOp'.k)
         /\ now - CACHE[IndexOf(CACHE, lastOp'.k)].t
                <= EffTtl(CACHE[IndexOf(CACHE, lastOp'.k)])) =>
            /\ cacheHits' = cacheHits + 1
            /\ lastOp'.ret = CACHE[IndexOf(CACHE, lastOp'.k)].d
            /\ Len(CACHE') = Len(CACHE)
            /\ \A i \in 1..Len(CACHE) :
                   /\ CACHE'[i].k = CACHE[i].k
                   /\ CACHE'[i].d = CACHE[i].d
                   /\ CACHE'[i].ttl = CACHE[i].ttl
                   /\ CACHE'[i].t = IF CACHE[i].k = lastOp'.k THEN now ELSE CACHE[i].t ]_vars

\* C29 witness: two hits in a row on an entry that is by now older than its
\* ttl counted from time 0, next to another entry
C29_Witness ==
    /\ lastOp.op = "get" /\ lastOp.branch = "fresh"
    /\ cacheHits = 2 /\ cacheMisses = 0
    /\ Len(CACHE) = 2
    /\ HasKey(CACHE, lastOp.k)
    /\ CACHE[IndexOf(CACHE, lastOp.k)].t = now
    /\ now > EffTtl(CACHE[IndexOf(CACHE, lastOp.k)])

\* a step of cacheGet: the only step that adds one to cacheHits + cacheMisses
IsGetStep == cacheHits' + cacheMisses' = cacheHits + cacheMisses + 1

\* C2: cacheGet(key) returns a payload only if key has an entry and
\* now - entry.t <= entry.ttl (entry.t and entry.ttl as they are when the
\* call starts); hence a read more than ttl after the write returns null.
C2_ReturnsOnlyFresh ==
    [][ (IsGetStep /\ lastOp'.ret # Null) =>
            /\ HasKey(CACHE, lastOp'.k)
            /\ now - CACHE[IndexOf(CACHE, lastOp'.k)].t
                   <= CACHE[IndexOf(CACHE, lastOp'.k)].ttl ]_vars

\* C2 witness: a cacheGet found the entry of its key expired and returned null
C2_Witness ==
    /\ lastOp.op = "get"
    /\ lastOp.branch = "expired"
    /\ lastOp.ret = Null
    /\ ~HasKey(CACHE, lastOp.k)

\* C15: every cacheGet changes exactly one counter by exactly one: a fresh
\* entry adds one to cacheHits, an absent key adds one to cacheMisses and
\* leaves the store alone, an expired entry adds one to cacheMisses and is
\* removed; so cacheHits + cacheMisses is the number of cacheGet calls made
\* since the last cacheClear.
C15_EveryGetCountsOnce ==
    [][ /\ getCalls' = getCalls + 1 =>
              LET b == GetBranch(CACHE, lastOp'.k, now) IN
              /\ b = "fresh" => /\ cacheHits' = cacheHits + 1
                                /\ cacheMisses' = cacheMisses
                                /\ HasKey(CACHE', lastOp'.k)
              /\ b = "absent" => /\ cacheMisses' = cacheMisses + 1
                                 /\ cacheHits' = cacheHits
                                 /\ CACHE' = CACHE
              /\ b = "expired" => /\ cacheMisses' = cacheMisses + 1
                                  /\ cacheHits' = cacheHits
                                  /\ ~HasKey(CACHE', lastOp'.k)
        /\ cacheHits' + cacheMisses' = getCalls' ]_vars

\* C15 witness: one cacheGet was a hit and a later one found the entry
\* expired and removed it
C15_Witness ==
    /\ cacheHits = 1 /\ cacheMisses = 1 /\ getCalls = 2
    /\ lastOp.op = "get" /\ lastOp.branch = "expired"
    /\ ~HasKey(CACHE, lastOp.k)

\* C17: cacheClear leaves no entry and both counters at zero, and on the
\* empty store every cacheGet is a miss that leaves the store empty (so
\* every read after a clear misses until the next cacheSet).
C17_ClearEmptiesAndResets ==
    [][ /\ lastOp'.op = "clear" =>
              Len(CACHE') = 0 /\ cacheHits' = 0 /\ cacheMisses' = 0
        /\ (CACHE = <<>> /\ getCalls' = getCalls + 1) =>
              /\ lastOp'.ret = Null
              /\ cacheMisses' = cacheMisses + 1
              /\ CACHE' = <<>> ]_vars

\* C17 witness: a cacheClear was the last call made, after the clock had
\* advanced to its bound
C17_Witness ==
    /\ now = MaxTime
    /\ lastOp.op = "clear"
    /\ CACHE = <<>>
    /\ cacheHits = 0 /\ cacheMisses = 0 /\ getCalls = 0

(***************************************************************************)
(* SpecCap: the store filled to its capacity, for several configured       *)
(* maximum sizes.  Keys are opaque to the store, so a key that is not in   *)
(* the store is represented by the successor of the largest stored key.    *)
(***************************************************************************)
CapSizes == {1, MAX_CACHE_SIZE, MAX_CACHE_SIZE + 1}

FreshKey(c) ==
    IF c = <<>> THEN 1
    ELSE 1 + (CHOOSE k \in CapKeys :
                 HasKey(c, k) /\ \A i \in 1..Len(c) : c[i].k <= k)

\* the keys a call of this specification writes: a key new to the store, or
\* the key at the head of the Map (which makes the oldest entry by timestamp
\* differ from the first entry in insertion order)
CapKeyChoices(c) ==
    (IF FreshKey(c) \in CapKeys THEN {FreshKey(c)} ELSE {})
        \cup (IF Len(c) > 0 THEN {c[1].k} ELSE {})

CapInit == CacheInit(CapSizes) /\ RetryIdle /\ WebIdle /\ RateIdle /\ PairIdle

CapSet == \E k \in CapKeyChoices(CACHE), ttl \in {TTL_short} :
              cacheSet(k, Payload(0), ttl)

CapTick == now < TTL_short + 1 /\ Tick

CapNext == CapSet \/ CapTick

SpecCap == CapInit /\ [][CapNext]_vars

C16_SetAlwaysAdmits ==
    [][ now' = now =>
            /\ lastOp'.op = "set"
            /\ HasKey(CACHE', lastOp'.k)
            /\ CACHE'[IndexOf(CACHE', lastOp'.k)].d = lastOp'.ret
            /\ GetBranch(CACHE', lastOp'.k, now') = "fresh"
            /\ GetResult(CACHE', lastOp'.k, now') = lastOp'.ret ]_vars

\* C16 witness: a cacheSet of the key at the head of a store at capacity,
\* in which no entry is expired: the cleanup evicted that key's old entry
\* and the call then admitted the new one, at the end of the Map.
C16_Witness ==
    /\ maxSize = MAX_CACHE_SIZE
    /\ now = 0
    /\ lastOp.op = "set" /\ lastOp.branch = "cleanup"
    /\ lastOp.k = 1
    /\ Len(CACHE) = MAX_CACHE_SIZE
    /\ CACHE[Len(CACHE)].k = 1
    /\ GetResult(CACHE, 1, now) = lastOp.ret


(***************************************************************************)
(* SpecWeb: one web search on an empty cache; the provider calls settle in *)
(* any order, each with the provider's own item or with a thrown value.    *)
(***************************************************************************)
\* the list a provider returns here: one item, whose url is the provider's
OwnItems(i) == <<RawItem(i, 0, 1)>>

IsolationOutcomes(i) == {OkOut(OwnItems(i))} \cup {FailOut(t) : t \in ThrownValues}

\* a supplementary call reaches the same adapter with the same arguments
MoreOutcomes(j) ==
    {OkOut(OwnItems(FindMethod(AdditionalCalls[j].name))), FailOut("Error")}

WebInit == CacheInit({MAX_CACHE_SIZE}) /\ RetryIdle /\ WebIdle /\ RateIdle /\ PairIdle

WebStart == wpc = "idle" /\ \E page \in 1..MaxPage : webSearch(1, page)

WebSettle == \E i \in Providers : \E o \in IsolationOutcomes(i) : Settle(i, o)

WebSettleMore ==
    \E j \in 1..Len(AdditionalCalls) : \E o \in MoreOutcomes(j) : SettleMore(j, o)

WebNext == WebStart \/ WebSettle \/ WebSettleMore

SpecWeb == WebInit /\ [][WebNext]_vars

\* the providers whose call threw, and those whose call returned a list
FailedProviders == {i \in Providers : slots[i] # NotSettled /\ ~slots[i].ok}
SucceededProviders == {i \in Providers : slots[i].ok}

\* the per-provider errors a caller can read in the value a search returns
ProviderErrorsOf(v) ==
    IF "providerErrors" \in DOMAIN v THEN v.providerErrors ELSE <<>>

\* C1: when at least one provider succeeds and at least one fails, webSearch
\* returns (it does not raise) and the returned value carries exactly one
\* provider-error entry for each provider that failed.
C1_PartialFailureIsolation ==
    (wpc = "done" /\ FailedProviders # {} /\ SucceededProviders # {}) =>
        /\ wret.kind = "return"
        /\ Len(ProviderErrorsOf(wret.value)) = Cardinality(FailedProviders)
        /\ {ProviderErrorsOf(wret.value)[n].provider :
                n \in 1..Len(ProviderErrorsOf(wret.value))}
             = {searchMethods[i].name : i \in FailedProviders}

\* C7: a web search never raises, whatever its providers do: once it is over
\* it has returned a list.
C7_AggregatorNeverRaises ==
    wpc = "done" => (wret.kind = "return" /\ wret.value.kind = "list")

\* every provider call of the search, the supplementary ones included,
\* threw an Error
Exhausted ==
    /\ wpc = "done"
    /\ Len(slots) = Len(searchMethods)
    /\ \A i \in 1..Len(slots) : slots[i] = FailOut("Error")
    /\ \A j \in 1..Len(bslots) : bslots[j] = FailOut("Error")

\* C19: when every provider of a search fails, the search returns the empty
\* list (it does not raise) and the entry it writes has ttl = TTL.short.
C19_ExhaustionCachedShort ==
    Exhausted =>
        /\ wret = Return(ListPayload(<<>>))
        /\ HasKey(CACHE, CacheKey(wreq))
        /\ CACHE[IndexOf(CACHE, CacheKey(wreq))].ttl = TTL_short

\* the outcomes of the calls merged in registration order: the fan-out's
\* providers as registered, then the supplementary calls as issued
MergedInOrder ==
    AllResultsOf([p \in 1..Len(slots) |-> ProviderResult(searchMethods, p, slots[p])],
                 Len(slots))
        \o (IF bslots = <<>> THEN <<>> ELSE AdditionalOf(bslots, Len(bslots)))

\* C27: the list a web search returns is determined by the outcome of each
\* provider call alone, whatever the order in which the calls completed: it
\* is the page of the merge of the outcomes taken in registration order.
C27_MergeIgnoresCompletionOrder ==
    (wpc = "done" /\ wret.kind = "return") =>
        wret.value =
            ListPayload(PagedResults(UniqueResults(MergedInOrder), wreq.page))

\* C27 witness: three providers of equal weight returned an item each, and
\* the first page holds the items of the two registered first
C27_Witness ==
    /\ wpc = "done" /\ wret.kind = "return" /\ wreq.page = 1
    /\ slots[1].ok /\ slots[2].ok /\ slots[7].ok
    /\ Len(wret.value.items) = RESULTS_PER_PAGE
    /\ wret.value.items[1].source = <<searchMethods[1].name, 0>>
    /\ wret.value.items[2].source = <<searchMethods[2].name, 0>>

\* C10: a web search that reaches the pagination step returns exactly the
\* items of the deduplicated, sorted list from index (p - 1) * pageSize up to
\* min(p * pageSize, length), and nothing when the page starts past the end.
C10_PaginationSlice ==
    (wpc = "done" /\ wret.kind = "return" /\ lastOp.op = "set") =>
        wret.value.items =
            SubSeq(uniqueResults,
                   (wreq.page - 1) * RESULTS_PER_PAGE + 1,
                   IF wreq.page * RESULTS_PER_PAGE < Len(uniqueResults)
                   THEN wreq.page * RESULTS_PER_PAGE
                   ELSE Len(uniqueResults))

\* page 3 of five items at two per page: the last item alone
C10_Witness ==
    /\ wpc = "done"
    /\ wreq.page = 3
    /\ Len(uniqueResults) = 2 * RESULTS_PER_PAGE + 1
    /\ wret = Return(ListPayload(<<uniqueResults[Len(uniqueResults)]>>))

(***************************************************************************)
(* SpecMerge: one web search for page 1 on an empty cache; the provider    *)
(* calls settle in registration order, each with a list of raw items whose *)
(* urls and scores may collide.                                            *)
(***************************************************************************)
MergeUrls == {1, 2}
MergeScores == {0, 2}

\* url and score of a raw item; an item without url carries no score here
MergeValues ==
    {[url |-> u, score |-> sc] : u \in MergeUrls, sc \in MergeScores}
        \cup {[url |-> 0, score |-> 0]}

\* the lists of at most n raw items
ItemLists(n) ==
    {[m \in DOMAIN f |-> RawItem(f[m].url, f[m].score, m)] :
        f \in UNION {[1..k -> MergeValues] : k \in 0..n}}

MergeStart == wpc = "idle" /\ webSearch(1, 1)

MergeSettle ==
    /\ wpc = "fanout"
    /\ \E l \in ItemLists(MaxItems - Used(slots, Len(slots))) :
           Settle(NextPending(slots), OkOut(l))

MergeSettleMore ==
    /\ wpc = "backfill"
    /\ \E l \in ItemLists(MaxExtra - Used(bslots, Len(bslots))) :
           SettleMore(NextPending(bslots), OkOut(l))

MergeNext == MergeStart \/ MergeSettle \/ MergeSettleMore

SpecMerge == WebInit /\ [][MergeNext]_vars


UniqueUrls(xs) ==
    \A a \in 1..Len(xs) : \A b \in 1..Len(xs) : a # b => xs[a].url # xs[b].url

\* C5: no two items of the list a web search returns share a url, and the
\* same holds for every list the search has stored in the cache.
C5_NoDuplicateUrls ==
    (wpc = "done" /\ wret.kind = "return") =>
        /\ UniqueUrls(wret.value.items)
        /\ \A n \in 1..Len(CACHE) : UniqueUrls(CACHE[n].d.items)

\* three items were merged, two of them with the same url: two are returned
C5_Witness ==
    /\ wpc = "done"
    /\ Len(allResults) = 3
    /\ \A n \in 1..3 : allResults[n].url # 0
    /\ ~UniqueUrls(allResults)
    /\ Len(wret.value.items) = 2
    /\ HasKey(CACHE, CacheKey(wreq))

\* where an item comes from: its provider's place in the registry, the page
\* of the supplementary call (0 for the fan-out), its place in the list
Origin(r) == <<FindMethod(r.source[1]), r.source[2], r.title>>

ComesBefore(a, b) ==
    \/ Origin(a)[1] < Origin(b)[1]
    \/ Origin(a)[1] = Origin(b)[1] /\ Origin(a)[2] < Origin(b)[2]
    \/ Origin(a)[1] = Origin(b)[1] /\ Origin(a)[2] = Origin(b)[2]
                                   /\ Origin(a)[3] < Origin(b)[3]

\* C9: the list a web search returns is sorted by descending weightScore, and
\* items of equal weightScore appear in provider-registration order, then in
\* their order within the provider's list.
C9_SortedWithStableTies ==
    (wpc = "done" /\ wret.kind = "return") =>
        \A n \in 1..(Len(wret.value.items) - 1) :
            \/ WS(wret.value.items[n]) > WS(wret.value.items[n + 1])
            \/ /\ WS(wret.value.items[n]) = WS(wret.value.items[n + 1])
               /\ ComesBefore(wret.value.items[n], wret.value.items[n + 1])

\* every item the search collected: the enriched items of the fan-out and
\* the items of the supplementary calls
Collected ==
    allResults \o (IF bslots = <<>> THEN <<>> ELSE AdditionalOf(bslots, Len(bslots)))

\* the weightScore of an item by the rule of the fan-out: the weight of the
\* provider it comes from times its raw score, an absent score counting as 1
RuleScore(r) == WeightScoreOf(searchMethods[FindMethod(r.source[1])].weight, r)

\* C21: of all collected items with the same url exactly one is retained,
\* and its weightScore (by the rule of the fan-out, for supplementary items
\* too) is the maximum over all occurrences of that url.
C21_DedupKeepsBestOccurrence ==
    (wpc = "done" /\ wret.kind = "return") =>
        \A n \in 1..Len(Collected) :
            Collected[n].url # 0 =>
                /\ Cardinality({m \in 1..Len(uniqueResults) :
                                   uniqueResults[m].url = Collected[n].url}) = 1
                /\ \A m \in 1..Len(uniqueResults) :
                       uniqueResults[m].url = Collected[n].url =>
                           /\ \E c \in 1..Len(Collected) : Collected[c] = uniqueResults[m]
                           /\ RuleScore(uniqueResults[m]) >= RuleScore(Collected[n])

\* the supplementary calls the search has issued
Supplementary == SubSeq(wcalls, Len(searchMethods) + 1, Len(wcalls))

\* C24: supplementary calls are issued if and only if the deduplicated count
\* of the fan-out's items is below RESULTS_PER_PAGE; they go only to
\* DuckDuckGo, Brave and GoogleFallback, at most two to each; and a failing
\* supplementary call adds no error to the request.
C24_BackfillTriggerAndBound ==
    (wpc = "done" /\ wret.kind = "return") =>
        /\ Supplementary # <<>> <=>
               Len(Dedup(allResults, Len(allResults))) < RESULTS_PER_PAGE
        /\ \A j \in 1..Len(Supplementary) :
               /\ \E b \in 1..Len(bestProviders) : bestProviders[b] = Supplementary[j].name
               /\ Cardinality({m \in 1..Len(Supplementary) :
                                  Supplementary[m].name = Supplementary[j].name}) <= 2
        /\ Len(errors) = Cardinality({i \in 1..Len(slots) : ~slots[i].ok})

\* C25: every supplementary call of a web search for page p reaches its
\* adapter with page p + 1 or p + 2, and no adapter is called twice with the
\* same page within one request.
C25_BackfillAsksFurtherPages ==
    /\ \A j \in 1..Len(Supplementary) :
           Supplementary[j].page \in {wreq.page + 1, wreq.page + 2}
    /\ \A a \in 1..Len(wcalls) : \A b \in 1..Len(wcalls) :
           a # b => wcalls[a] # wcalls[b]

(***************************************************************************)
(* SpecEngine: category searches one after the other on one cache, while   *)
(* time passes between them.  The calls of a search settle in order; the   *)
(* first provider of a category may have an item.                          *)
(***************************************************************************)
\* a raw item of a category's adapters
RawFor(cat, u, n) ==
    CASE cat = "web" -> RawItem(u, 0, n)
      [] cat = "img" -> [image |-> u, title |-> n]
      [] cat = "vid" -> [videoId |-> u, url |-> u, title |-> n]
      [] cat = "news" -> [url |-> u, title |-> n]
      [] OTHER -> [temp |-> u, title |-> n]

\* the urls the first provider's item may have: a plain one, and for news a
\* missing one and one on a blocked domain
EngineUrls(cat) == IF cat = "news" THEN {0, 1, BlockedUrl} ELSE {1}

EngineOutcomes(cat, i) ==
    IF i = 1 THEN {OkOut(<<>>)} \cup {OkOut(<<RawFor(cat, u, 1)>>) : u \in EngineUrls(cat)}
    ELSE IF i = 2 /\ cat = "weather" THEN {OkOut(<<>>), FailOut("Error")}
    ELSE {OkOut(<<>>)}

EngineStart ==
    /\ cacheHits + cacheMisses < MaxGets
    /\ \/ webSearch(1, 1)
       \/ imageSearch(1)
       \/ videoSearch(1)
       \/ newsSearch(1, "strict")
       \/ weatherSearch(1)

EngineSettle ==
    /\ wpc = "fanout"
    /\ \E o \in EngineOutcomes(wreq.cat, NextPending(slots)) :
          \/ Settle(NextPending(slots), o)
          \/ SettleWeighted(NextPending(slots), o)

EngineMore ==
    /\ wpc = "backfill"
    /\ \E o \in EngineOutcomes(wreq.cat, NextPending(bslots)) :
          SettleMore(NextPending(bslots), o)

EngineAdditional ==
    /\ wpc = "more"
    /\ \E o \in EngineOutcomes(wreq.cat, Len(bslots) + 1) : SettleAdditional(o)

EngineWeather ==
    /\ wpc = "trying"
    /\ \E o \in EngineOutcomes(wreq.cat, NextPending(slots)) : WeatherSettles(o)

EngineTick == wpc \in {"idle", "done"} /\ Tick

EngineNext ==
    \/ EngineStart
    \/ EngineSettle
    \/ EngineMore
    \/ EngineAdditional
    \/ EngineWeather
    \/ EngineTick

SpecEngine == WebInit /\ [][EngineNext]_vars

\* C4: when the cache lookup of a category search is a hit, the search ends
\* at once with the cached payload and has started no provider call.
C4_HitStartsNoProviderCall ==
    [][ (IsGetStep /\ Fresh(CACHE, lastOp'.k, now)) =>
            /\ wpc' = "done"
            /\ wcalls' = <<>>
            /\ wret' = Return(CACHE[IndexOf(CACHE, lastOp'.k)].d) ]_vars

\* the second of two searches with the same key hits an entry whose payload
\* is the empty list
C4_Witness ==
    /\ cacheMisses = 1
    /\ cacheHits = 1
    /\ wpc = "done"
    /\ lastOp.op = "get"
    /\ lastOp.k = CacheKey(wreq)
    /\ wret = Return(ListPayload(<<>>))
    /\ wcalls = <<>>

\* C26: in a web search the cache check comes before any provider call; a
\* hit ends the request with no provider call and no cacheSet; on a miss
\* the fan-out starts once, every call started (fan-out and supplementary)
\* has settled when the merge runs, and the merge, the one cacheSet of the
\* request and the return follow in that order; the fan-out is never run
\* again.
C26_RequestStateMachine ==
    [][ wreq'.cat = "web" =>
          /\ getCalls' = getCalls + 1 =>
                /\ lastOp'.op = "get" /\ lastOp'.k = CacheKey(wreq')
                /\ IF lastOp'.ret # Null
                   THEN /\ wcalls' = <<>>
                        /\ wpc' = "done"
                        /\ wret' = Return(lastOp'.ret)
                        /\ Len(CACHE') = Len(CACHE)
                   ELSE /\ wcalls' = FanOutCalls(wreq')
                        /\ wpc' = "fanout"
                        /\ \A i \in 1..Len(slots') : slots'[i] = NotSettled
                        /\ wret' = NoReturn
          /\ (lastOp'.op = "set" /\ lastOp' # lastOp) =>
                /\ lastOp.op = "get" /\ lastOp.k = lastOp'.k /\ lastOp.ret = Null
                /\ \A i \in 1..Len(slots') : slots'[i] # NotSettled
                /\ \A j \in 1..Len(bslots') : bslots'[j] # NotSettled
                /\ Len(wcalls') = Len(slots') + Len(bslots')
                /\ wpc # "done" /\ wpc' = "done"
                /\ wret = NoReturn /\ wret' = Return(lastOp'.ret)
                /\ lastOp'.ret = ListPayload(PagedResults(uniqueResults', wreq'.page))
          /\ getCalls' = getCalls =>
                /\ wpc' = "fanout" => wpc = "fanout"
                /\ wpc' = "backfill" => wpc \in {"fanout", "backfill"}
                /\ SubSeq(wcalls', 1, Len(wcalls)) = wcalls
                /\ wcalls' # wcalls => (wpc = "fanout" /\ wpc' = "backfill")
                /\ wpc = "done" => (wpc' = "done" /\ wret' = wret /\ CACHE' = CACHE) ]_vars

\* C26 witness: a web search that missed has called its providers and the
\* supplementary ones, merged, stored its result and returned it
C26_Witness ==
    /\ wreq.cat = "web" /\ wpc = "done"
    /\ lastOp.op = "set" /\ lastOp.k = CacheKey(wreq)
    /\ Len(wcalls) = Len(searchMethods) + Len(AdditionalCalls)
    /\ \A j \in 1..Len(bslots) : bslots[j] # NotSettled
    /\ wret = Return(lastOp.ret)
    /\ Len(wret.value.items) = 1

\* the TTL class of a category: weather is short-lived, the others medium
TtlClass(cat) == IF cat = "weather" THEN TTL_short ELSE TTL_medium

\* C18: a category search that missed stores its result under its key with
\* the TTL class of its category (weather: TTL.short; web, image, video and
\* news: TTL.medium), and the payload stored is the value it returns.
C18_StoredWithCategoryTtl ==
    (wpc = "done" /\ lastOp.op = "set") =>
        /\ lastOp.k = CacheKey(wreq)
        /\ HasKey(CACHE, CacheKey(wreq))
        /\ CACHE[IndexOf(CACHE, CacheKey(wreq))].ttl = TtlClass(wreq.cat)
        /\ wret = Return(CACHE[IndexOf(CACHE, CacheKey(wreq))].d)

\* C18 witness: a weather search stored the data of a provider with
\* TTL.short, next to the entry of an earlier search of another category
\* stored with TTL.medium.
C18_Witness ==
    /\ wpc = "done" /\ wreq.cat = "weather"
    /\ lastOp.op = "set"
    /\ wret.kind = "return" /\ wret.value # errorData
    /\ Len(CACHE) = 2
    /\ CACHE[2].k = CacheKey(wreq) /\ CACHE[2].ttl = TTL_short
    /\ CACHE[1].ttl = TTL_medium

(***************************************************************************)
(* SpecTwice: a web, image, video or news search runs on an empty cache,   *)
(* the cache is cleared, and the same search runs again with every call    *)
(* settling as it did the first time, in any order.                        *)
(***************************************************************************)
TwiceOutcomes(cat, i, used) ==
    {OkOut(<<>>)} \cup (IF used < TwiceItems THEN {OkOut(<<RawFor(cat, i, 1)>>)} ELSE {})

TwiceMoreOutcomes(cat, name, used) ==
    {OkOut(<<>>)}
        \cup (IF used < MaxExtra
              THEN {OkOut(<<RawFor(cat, Len(Registry(cat)) + 1, 1)>>)} ELSE {})

TwiceStart ==
    /\ wpc = "idle"
    /\ IF first = NoFirst
       THEN \/ webSearch(1, 1)
            \/ imageSearch(1)
            \/ videoSearch(1)
            \/ newsSearch(1, "moderate")
       ELSE Begin(first.req)

TwiceSettle ==
    /\ wpc = "fanout"
    /\ \E i \in 1..Len(slots) :
          \E o \in (IF first = NoFirst
                    THEN TwiceOutcomes(wreq.cat, i, Used(slots, Len(slots)))
                    ELSE {first.slots[i]}) :
              \/ Settle(i, o)
              \/ SettleWeighted(i, o)

TwiceMore ==
    /\ wpc = "backfill"
    /\ \E j \in 1..Len(bslots) :
          \E o \in (IF first = NoFirst
                    THEN TwiceMoreOutcomes(wreq.cat, AdditionalCalls[j].name,
                                           Used(bslots, Len(bslots)))
                    ELSE {first.bslots[j]}) :
              SettleMore(j, o)

TwiceAdditional ==
    /\ wpc = "more"
    /\ \E o \in (IF first = NoFirst
                 THEN TwiceMoreOutcomes(wreq.cat,
                                        AdditionalSearches(wreq.cat)[Len(bslots) + 1],
                                        Used(bslots, Len(bslots)))
                 ELSE {first.bslots[Len(bslots) + 1]}) :
          SettleAdditional(o)

\* the first run is over: its outcomes are kept and the cache is cleared
RunAgain ==
    /\ wpc = "done"
    /\ first = NoFirst
    /\ first' = [req |-> wreq, slots |-> slots, bslots |-> bslots, ret |-> wret]
    /\ ClearCall
    /\ wpc' = "idle"
    /\ UNCHANGED <<wreq, slots, bslots, allResults, errors, uniqueResults, wcalls,
                   wret, retryVars, rateVars, pair>>

TwiceNext == TwiceStart \/ TwiceSettle \/ TwiceMore \/ TwiceAdditional \/ RunAgain

SpecTwice == WebInit /\ [][TwiceNext]_vars

\* which item this is: the provider it comes from and its place in the list
Who(r) == IF "source" \in DOMAIN r THEN r.source ELSE r.provider
Identity(xs) == [n \in 1..Len(xs) |-> <<Who(xs[n]), xs[n].title>>]

\* C8: run twice on the same provider outcomes, each time from an empty
\* cache, a web, image, video or news search returns the same items in the
\* same order.
C8_MergeIsDeterministic ==
    (first # NoFirst /\ wpc = "done") =>
        /\ wret.kind = first.ret.kind
        /\ Identity(wret.value.items) = Identity(first.ret.value.items)

(***************************************************************************)
(* SpecFault: the searches of SpecEngine on a store whose entries may be   *)
(* corrupt, so that the try block of a cacheGet that finds an entry, and   *)
(* of a cacheSet that cleans up, may throw.                                *)
(***************************************************************************)
FaultSizes == {1, MAX_CACHE_SIZE}

FaultInit ==
    /\ CACHE = <<>>
    /\ cacheHits = 0
    /\ cacheMisses = 0
    /\ now = 0
    /\ maxSize \in FaultSizes
    /\ lastOp = NoOp
    /\ getCalls = 0
    /\ faulty = TRUE
    /\ RetryIdle
    /\ WebIdle
    /\ RateIdle
    /\ PairIdle

FaultStart ==
    /\ cacheHits + cacheMisses < MaxGets
    /\ \/ webSearch(1, 1)
       \/ imageSearch(1)
       \/ weatherSearch(1)

FaultNext ==
    \/ FaultStart
    \/ EngineSettle
    \/ EngineMore
    \/ EngineAdditional
    \/ EngineWeather
    \/ EngineTick

SpecFault == FaultInit /\ [][FaultNext]_vars

\* C14: cacheGet and cacheSet never raise.  When the try block of cacheGet
\* throws, the call returns null and counts a miss, and the search that
\* made it goes on to call its providers; when the try block of cacheSet
\* throws, the call returns and the search returns the result it computed.
C14_CacheFaultsDegradeToMiss ==
    [][ /\ (getCalls' = getCalls + 1 /\ lastOp'.branch = "fault") =>
              /\ lastOp'.ret = Null
              /\ cacheMisses' = cacheMisses + 1
              /\ cacheHits' = cacheHits
              /\ wpc' \in {"fanout", "trying"}
              /\ wcalls' = FirstCalls(wreq')
              /\ wret' = NoReturn
        /\ (wpc # "done" /\ wpc' = "done" /\ lastOp'.op = "set"
                /\ lastOp'.branch = "fault") =>
              /\ wret' = Return(lastOp'.ret)
              /\ ~HasKey(CACHE', lastOp'.k) \/ HasKey(CACHE, lastOp'.k) ]_vars

\* C14 witness: the second of two searches with the same key, with no time
\* passed, found the entry but its cacheGet threw (no hit was counted); it
\* called its providers, its cacheSet threw during the cleanup, and it
\* returned its result.
C14_Witness ==
    /\ now = 0
    /\ wpc = "done"
    /\ lastOp.op = "set" /\ lastOp.branch = "fault"
    /\ lastOp.k = CacheKey(wreq)
    /\ HasKey(CACHE, lastOp.k)
    /\ cacheHits = 0 /\ getCalls = 2
    /\ wret.kind = "return"

(***************************************************************************)
(* Rate limiting middleware (part_001:451-496).  RATE_LIMIT.max and        *)
(* RATE_LIMIT.windowMs are scaled; time is the shared clock.               *)
(***************************************************************************)
RATE_LIMIT_max == 2
RATE_LIMIT_windowMs == 2

NIps == 2           \* client addresses
MaxRequests == 5    \* requests that reach the middleware in one run
\* the clock runs long enough for a full window to slide out
MaxRateTime == 2 * RATE_LIMIT_windowMs

Ips == 1..NIps

\* requestCounts.get(ip), after lines 464-466 have created a missing array
RequestsOf(rc, ip) == IF ip \in DOMAIN rc THEN rc[ip] ELSE <<>>

\* requests[0] < now - windowMs
TooOldInclusive(ts, t) == ts <= t - RATE_LIMIT_windowMs
TooOld(ts, t) == ts < t - RATE_LIMIT_windowMs

\* the while loop of lines 470-472: shift while the head is too old
RECURSIVE Pruned(_, _)
Pruned(rq, t) ==
    IF rq # <<>> /\ TooOld(Head(rq), t) THEN Pruned(Tail(rq), t) ELSE rq

\* one request from ip passes through the middleware
rateLimiter(ip) ==
    /\ rres.n < MaxRequests
    /\ IF devMode
       THEN /\ rres' = [n |-> rres.n + 1, ip |-> ip, status |-> "bypass",
                        remaining |-> 0]
            /\ admitted' = [admitted EXCEPT ![ip] = Append(@, now)]
            /\ UNCHANGED requestCounts
       ELSE LET requests == Pruned(RequestsOf(requestCounts, ip), now)
            IN IF Len(requests) >= RATE_LIMIT_max
               THEN /\ requestCounts' = (ip :> requests) @@ requestCounts
                    /\ rres' = [n |-> rres.n + 1, ip |-> ip, status |-> "429",
                                remaining |-> 0]
                    /\ UNCHANGED admitted
               ELSE /\ requestCounts' = (ip :> Append(requests, now)) @@ requestCounts
                    /\ rres' = [n |-> rres.n + 1, ip |-> ip, status |-> "next",
                                remaining |-> RATE_LIMIT_max - (Len(requests) + 1)]
                    /\ admitted' = [admitted EXCEPT ![ip] = Append(@, now)]
    /\ UNCHANGED <<devMode, cacheVars, retryVars, webVars, first, pair>>

\* time passes between two requests
RateTick ==
    /\ now < MaxRateTime
    /\ now' = now + 1
    /\ UNCHANGED <<CACHE, cacheHits, cacheMisses, maxSize, lastOp, getCalls, faulty>>
    /\ UNCHANGED <<rateVars, retryVars, webVars, first, pair>>

(***************************************************************************)
(* SpecRate: requests of several clients reach the middleware as time      *)
(* passes, in development mode or not.                                     *)
(***************************************************************************)
RateInit ==
    /\ CacheIdle /\ RetryIdle /\ WebIdle /\ PairIdle
    /\ requestCounts = <<>>
    /\ devMode \in BOOLEAN
    /\ rres = NoResponse
    /\ admitted = [ip \in Ips |-> <<>>]

RateRequest == \E ip \in Ips : rateLimiter(ip)

RateNext == RateRequest \/ RateTick

SpecRate == RateInit /\ [][RateNext]_vars

\* the requests of ip passed to next() with a timestamp in [t - windowMs, t]
InWindow(ts, t) ==
    Cardinality({i \in 1..Len(ts) :
                    ts[i] >= t - RATE_LIMIT_windowMs /\ ts[i] <= t})

WindowCount(ip, t) == InWindow(admitted[ip], t)

\* C20: outside development mode, for every ip and every time t at most
\* RATE_LIMIT.max requests of that ip are admitted with a timestamp in
\* [t - windowMs, t]; a request that arrives when the window holds max
\* admitted requests is answered 429 and is not added; the
\* X-RateLimit-Remaining of an admitted request is max minus the admitted
\* requests in the window, and never negative.
C20_SlidingWindowLimit ==
    [][ ~devMode =>
          /\ \A ip \in Ips : \A t \in 0..MaxRateTime :
                 InWindow(admitted'[ip], t) <= RATE_LIMIT_max
          /\ rres'.n = rres.n + 1 =>
                /\ WindowCount(rres'.ip, now) >= RATE_LIMIT_max =>
                      /\ rres'.status = "429"
                      /\ admitted' = admitted
                      /\ Len(RequestsOf(requestCounts', rres'.ip)) = RATE_LIMIT_max
                /\ rres'.status = "next" =>
                      /\ admitted'[rres'.ip] = Append(admitted[rres'.ip], now)
                      /\ rres'.remaining = RATE_LIMIT_max - InWindow(admitted'[rres'.ip], now)
                      /\ rres'.remaining >= 0 ]_vars

\* C20 witness: a client that had its window full, then saw it slide, was
\* admitted again and is now answered 429 with the window full once more
C20_Witness ==
    /\ ~devMode
    /\ rres.status = "429"
    /\ Len(admitted[rres.ip]) > RATE_LIMIT_max
    /\ WindowCount(rres.ip, now) = RATE_LIMIT_max

(***************************************************************************)
(* Two searches for the same key in flight at once.  A search runs up to   *)
(* its first await (cache check, provider calls started) in one step and   *)
(* from its last await on (merge, cacheSet, return) in another; the steps  *)
(* of the other search and other cache calls may come in between.  What    *)
(* the providers deliver, and so the merged payload, is free.              *)
(***************************************************************************)
Requests == {1, 2}

PairKey == 1
OtherKey == 2

\* lines 1117-1154: cacheGet; on a hit return, on a miss start the fan-out
PairLookup(r) ==
    /\ pair[r].pc = "start"
    /\ GetCall(pair[r].key)
    /\ pair' = [pair EXCEPT ![r].pc =
                   IF Truthy(lastOp'.ret) THEN "hit" ELSE "fanout"]
    /\ UNCHANGED <<retryVars, webVars, first, rateVars>>

\* lines 1154-1245: the fan-out is over; merge, cacheSet and return
PairStore(r, d) ==
    /\ pair[r].pc = "fanout"
    /\ SetCall(pair[r].key, d, DefaultTtl)
    /\ pair' = [pair EXCEPT ![r].pc = "done", ![r].wrote = d]
    /\ UNCHANGED <<retryVars, webVars, first, rateVars>>

(***************************************************************************)
(* SpecPair: the two searches on a store that is empty or one entry short  *)
(* of its capacity, with other cache calls and clock ticks in between.     *)
(***************************************************************************)
\* a store holding n entries of other keys, written at time 0
Filled(n) ==
    [i \in 1..n |-> [k |-> OtherKey + i, d |-> Payload(0), t |-> 0, ttl |-> TTL_medium]]

PairInit ==
    /\ CACHE \in {<<>>, Filled(MAX_CACHE_SIZE - 1)}
    /\ cacheHits = 0
    /\ cacheMisses = 0
    /\ now = 0
    /\ maxSize = MAX_CACHE_SIZE
    /\ lastOp = NoOp
    /\ getCalls = 0
    /\ faulty = FALSE
    /\ RetryIdle /\ WebIdle /\ RateIdle
    /\ pair = [r \in Requests |-> [pc |-> "start", key |-> PairKey, wrote |-> Null]]

PairGet == \E r \in Requests : PairLookup(r)

PairSet == \E r \in Requests, d \in Data : PairStore(r, d)

\* other callers read either key, store a short-lived entry under the
\* other key, or clear the cache; time passes until such an entry expires
PairOtherGet == \E k \in {PairKey, OtherKey} : cacheGet(k)

PairOtherSet == cacheSet(OtherKey, Payload(0), TTL_short)

PairTick == now < TTL_short + 1 /\ Tick

PairNext == PairGet \/ PairSet \/ PairOtherGet \/ PairOtherSet \/ DoClear \/ PairTick

SpecPair == PairInit /\ [][PairNext]_vars

\* the step in which request r writes the cache
Writes(r) == pair[r].pc = "fanout" /\ pair'[r].pc = "done"

\* after the step the store holds exactly one entry for k, the one just written
OneEntryLastWritten(r) ==
    /\ Cardinality({i \in 1..Len(CACHE') : CACHE'[i].k = pair[r].key}) = 1
    /\ CACHE'[IndexOf(CACHE', pair[r].key)] =
           [k |-> pair[r].key, d |-> pair'[r].wrote, t |-> now, ttl |-> TTL_medium]

\* every entry of another key is in the store after the step as it was before
OthersKept(r) ==
    \A i \in 1..Len(CACHE) :
        CACHE[i].k # pair[r].key => \E j \in 1..Len(CACHE') : CACHE'[j] = CACHE[i]

\* every entry of another key in the store after the step was there before
OthersUnchanged(r) ==
    \A j \in 1..Len(CACHE') :
        CACHE'[j].k # pair[r].key => \E i \in 1..Len(CACHE) : CACHE[i] = CACHE'[j]

\* C13 as claimed: whenever one of two concurrent searches for the same key
\* writes the cache, the store then holds exactly one well-formed entry for
\* the key, with the payload just written, and no entry of another key has
\* been altered by the write.
C13_LastWriteWinsOthersUntouched ==
    [][ \A r \in Requests :
            Writes(r) => OneEntryLastWritten(r) /\ OthersKept(r) /\ OthersUnchanged(r) ]_vars

\* C13 amended: the same, except that a write made when the store is at
\* capacity may remove entries of other keys (the cleanup of cacheSet); it
\* never changes the content of an entry that stays.
C13_LastWriteWinsBelowCapacity ==
    [][ \A r \in Requests :
            Writes(r) =>
                /\ OneEntryLastWritten(r)
                /\ OthersUnchanged(r)
                /\ ~CleanupNeeded(CACHE, maxSize) => OthersKept(r) ]_vars

\* C13 witness: both searches missed and both wrote, with different
\* payloads; the second write found the store at capacity, cleaned up and
\* left the key with its payload.
C13_Witness ==
    /\ pair # <<>>
    /\ \A r \in Requests : pair[r].pc = "done"
    /\ pair[1].wrote # pair[2].wrote
    /\ lastOp.op = "set" /\ lastOp.branch = "cleanup" /\ lastOp.k = PairKey
    /\ HasKey(CACHE, PairKey)
    /\ CACHE[IndexOf(CACHE, PairKey)].d = lastOp.ret

(***************************************************************************)
(* SpecScore: one web search for page 1 on an empty cache; a provider      *)
(* returns nothing or one item of its own url whose raw score is absent,   *)
(* positive or negative (an adapter computes e.g. 30 - results.length).    *)
(***************************************************************************)
ScoreValues == {0 - 1, 0, 2}

ScoreOutcomes(i, used) ==
    {OkOut(<<>>)}
        \cup (IF used < MaxItems
              THEN {OkOut(<<RawItem(i, sc, 1)>>) : sc \in ScoreValues} ELSE {})

ScoreStart == wpc = "idle" /\ webSearch(1, 1)

ScoreSettle ==
    /\ wpc = "fanout"
    /\ \E o \in ScoreOutcomes(NextPending(slots), Used(slots, Len(slots))) :
           Settle(NextPending(slots), o)

ScoreSettleMore ==
    /\ wpc = "backfill"
    /\ SettleMore(NextPending(bslots), OkOut(<<>>))

ScoreNext == ScoreStart \/ ScoreSettle \/ ScoreSettleMore

SpecScore == WebInit /\ [][ScoreNext]_vars

\* max(rawScore, 1), an absent rawScore (0 here) counting as 1
AtLeastOne(x) == IF x < 1 THEN 1 ELSE x

\* C22: every item a web provider returned has
\* weightScore = providerWeight * max(rawScore, 1), for every integer
\* rawScore, so weightScore >= providerWeight > 0.
C22_WeightScoreFloorsRawScore ==
    \A n \in 1..Len(allResults) :
        LET w == searchMethods[FindMethod(allResults[n].source[1])].weight
        IN /\ allResults[n].weightScore = w * AtLeastOne(allResults[n].score)
           /\ allResults[n].weightScore >= w
           /\ w > 0

(***************************************************************************)
(* SpecLazy: the cache store, empty or one entry short of its capacity,    *)
(* under reads, writes, clears, statistics scans and clock ticks.          *)
(***************************************************************************)
LazyInit ==
    /\ CACHE \in {<<>>, Filled(MAX_CACHE_SIZE - 1)}
    /\ cacheHits = 0
    /\ cacheMisses = 0
    /\ now = 0
    /\ maxSize = MAX_CACHE_SIZE
    /\ lastOp = NoOp
    /\ getCalls = 0
    /\ faulty = FALSE
    /\ RetryIdle /\ WebIdle /\ RateIdle /\ PairIdle

\* one key outside the pre-filled store and one inside it
LazyKeys == {PairKey, OtherKey + 1}

LazyGet == \E k \in LazyKeys : cacheGet(k)

LazySet == \E k \in LazyKeys : cacheSet(k, Payload(0), TTL_short)

LazyNext == LazyGet \/ LazySet \/ cacheClear \/ getCacheStats \/ Tick

SpecLazy == LazyInit /\ [][LazyNext]_vars

\* C28: an entry leaves the store only by cacheClear, by a cacheGet of its
\* own key that finds it expired, or by the cleanup of a cacheSet at capacity
\* (as one of the oldest floor(10%) or as an expired entry); a clock tick, a
\* cacheGet of another key, a cacheSet below capacity and getCacheStats
\* remove nothing, and getCacheStats reports the stored entries, expired
\* ones included.
C28_ExpiryIsLazy ==
    [][ /\ \A i \in 1..Len(CACHE) :
              ~HasKey(CACHE', CACHE[i].k) =>
                  \/ lastOp'.op = "clear" /\ now' = now
                  \/ /\ lastOp'.op = "get" /\ getCalls' = getCalls + 1
                     /\ lastOp'.k = CACHE[i].k
                     /\ Expired(CACHE[i], now)
                  \/ /\ lastOp'.op = "set" /\ now' = now
                     /\ Len(CACHE) >= maxSize
                     /\ SortRank(CACHE, i) < ToRemove(CACHE) \/ Expired(CACHE[i], now)
        /\ (lastOp'.op = "stats" /\ now' = now) =>
              /\ CACHE' = CACHE
              /\ lastOp'.stats.size = Len(CACHE')
              /\ lastOp'.stats.expiredEntries =
                     Cardinality({i \in 1..Len(CACHE') : Expired(CACHE'[i], now)}) ]_vars

\* C28 witness: time has passed, nothing was read, and getCacheStats counts
\* an expired entry that is still in the store
C28_Witness ==
    /\ lastOp.op = "stats"
    /\ lastOp.stats.expiredEntries >= 1
    /\ lastOp.stats.size = Len(CACHE)
    /\ \E i \in 1..Len(CACHE) : Expired(CACHE[i], now)


(***************************************************************************)
(* fetchWithRetry under fair scheduling: the synchronous code between two  *)
(* awaits runs on, every fetch settles (with a response, an error or the   *)
(* AbortError of the aborted signal) and every delay timer fires.  The     *)
(* REQUEST_TIMEOUT timer may or may not fire.                              *)
(***************************************************************************)
SpecRetryFair ==
    /\ RetryInit
    /\ [][RetryNext]_vars
    /\ WF_vars(StartAttempt)
    /\ WF_vars(FetchResponds \/ FetchAborts)
    /\ WF_vars(DelayElapses)

\* the attempts the call has started: the settled ones and the one in flight
AttemptsStarted == Len(history) + (IF fpc = "fetch" THEN 1 ELSE 0)

\* C30: whatever the upstream answers, the call never starts more than
\* maxRetries attempts, and it ends: it comes to rest having returned a body
\* or thrown, with no fetch and no delay pending.
C30_FetchWithRetryTerminates ==
    /\ [](AttemptsStarted <= maxRetries /\ attempt <= maxRetries)
    /\ <>[](fpc = "done" /\ fret.kind \in {"return", "throw"})

\* C30 witness: the call ended after it used up the largest retry budget
C30_Witness ==
    /\ fpc = "done"
    /\ fret.kind = "throw"
    /\ maxRetries = MaxAttempts
    /\ Len(history) = maxRetries
    /\ attempt = maxRetries

=========================================================================
